---- MODULE Spec2Model ----
(***************************************************************************)
(* my-recall: the Capture Sampler (watcher/watcher.py), the Ingestion      *)
(* Pipeline (backend/worker.py, backend/database.py) and the pause         *)
(* controls of the dashboard (frontend/app.py), as one state machine.      *)
(* The two processes share only the storage directory (the inbox), the     *)
(* archive directory and the pause marker.                                 *)
(***************************************************************************)
EXTENDS Integers, Sequences, FiniteSets, TLC

\* ------------------------------------------------------------------ bounds
\* Seconds of wall clock the model runs through (one timestamp name each).
MaxTime == 2
\* Largest configured capture_interval, in whole seconds (0: below a second).
MaxInterval == 1
\* Width of a perceptual fingerprint, in bits.
HashBits == 1
\* External failures (capture tool, OCR, embedding, stores, worker crash)
\* that may occur in one behaviour.
MaxFaults == 2

\* ----------------------------------------------------------- configuration
\* CONFIG['similarity_threshold'], compared at watcher.py:88.
similarity_threshold == 1
\* CONFIG['window_blacklist'], read at watcher.py:59.
window_blacklist == {<<"K", "p">>}

\* ------------------------------------------------------------- file names
\* A file name is a sequence of tokens; the last token is its extension.
\* temp_filename, watcher.py:70.
temp_filename == <<"temp_", "capture", ".png">>
\* strftime("%Y-%m-%d_%H-%M-%S") of second t: a fixed-width stamp.
Strftime(t) == ToString(t)
\* final_filename = f"{timestamp}.png", watcher.py:91.
final_filename(t) == <<Strftime(t), ".png">>
FinalNames == {final_filename(t) : t \in 1..MaxTime}
FileNames == FinalNames \cup {temp_filename}
\* os.path.join(ARCHIVE_DIR, filename), worker.py:127 and :149.
ArchivePath(filename) == <<"archive">> \o filename
\* os.path.join(INBOX_DIR, filename), worker.py:97.
InboxPath(filename) == <<"inbox">> \o filename

\* str.lower() on the tokens that occur as extensions.
LowerToken(tok) ==
  CASE tok = ".PNG" -> ".png"
    [] tok = ".JPG" -> ".jpg"
    [] tok = ".JPEG" -> ".jpeg"
    [] OTHER -> tok
\* f.lower().endswith(('.png', '.jpg', '.jpeg')), worker.py:168.
HasImageExtension(f) == LowerToken(f[Len(f)]) \in {".png", ".jpg", ".jpeg"}
\* A loop that skips nothing.
NeverTempName(f) == FALSE
\* file.startswith("temp_") or file == "temp_capture.jpeg", worker.py:180.
IsTempName(f) == f[1] = "temp_" \/ f = <<"temp_", "capture", ".jpeg">>

\* Python's string order on the names the watcher produces: stamps have a
\* fixed width, so they compare as the seconds they print; a stamp starts
\* with a digit, which sorts before the 't' of the temp name.
IsStamp(tok) == \E t \in 1..MaxTime : Strftime(t) = tok
StampSecond(tok) == CHOOSE t \in 1..MaxTime : Strftime(t) = tok
\* A file some other program left in the inbox: its name is no timestamp.
foreign_filename == <<"shot", ".JPG">>
\* The place of a name's first token in that order: the stamps, then "shot",
\* then "temp_" ('s' sorts before 't').
FirstTokenRank(tok) ==
  IF IsStamp(tok) THEN StampSecond(tok)
  ELSE IF tok = "temp_" THEN MaxTime + 2
  ELSE MaxTime + 1
NameLess(a, b) == FirstTokenRank(a[1]) < FirstTokenRank(b[1])

\* A listing in descending order.
RECURSIVE SortedDescending(_)
SortedDescending(S) ==
  IF S = {} THEN <<>>
  ELSE LET greatest == CHOOSE x \in S : \A y \in S \ {x} : NameLess(y, x)
       IN <<greatest>> \o SortedDescending(S \ {greatest})

\* sorted(S): the sequence of the names of S in ascending order.
RECURSIVE Sorted(_)
Sorted(S) ==
  IF S = {} THEN <<>>
  ELSE LET least == CHOOSE x \in S : \A y \in S \ {x} : NameLess(x, y)
       IN <<least>> \o Sorted(S \ {least})

\* ---------------------------------------------------------------- OCR, time
\* One line of an OCR page: [box, (text, score)].
OcrLine(text) == <<"box", <<text, "score">>>>
\* What self.ocr.ocr may return: nothing, a page without lines, pages of
\* one and of two lines.
OcrResults ==
  { <<>>, << <<>> >>, << <<OcrLine("cpu")>> >>,
    << <<OcrLine("cpu"), OcrLine("usage")>> >> }
\* process_image has no OCR result (yet): a value that is none of them.
NoResult == << <<>>, <<>> >>

\* " ".join(texts): a text is the sequence of its pieces.
RECURSIVE JoinSpace(_)
JoinSpace(texts) ==
  IF Len(texts) = 0 THEN <<>>
  ELSE IF Len(texts) = 1 THEN <<texts[1]>>
  ELSE <<texts[1], " ">> \o JoinSpace(Tail(texts))

\* A join that puts nothing between the fragments.
FullTextUnjoined(result) ==
  IF result # <<>> /\ result[1] # <<>>
    THEN [i \in 1..Len(result[1]) |-> result[1][i][2][1]]
    ELSE <<>>

\* process_image, worker.py:107-109: the recognized fragments of the first
\* page joined by single spaces, the empty string when there are none.
FullText(result) ==
  IF result # <<>> /\ result[1] # <<>>
    THEN JoinSpace([i \in 1..Len(result[1]) |-> result[1][i][2][1]])
    ELSE <<>>

\* os.path.splitext(filename)[0], worker.py:120.
CleanName(filename) == SubSeq(filename, 1, Len(filename) - 1)
\* process_image, worker.py:117-123: the second the name's stamp prints, or
\* the current time when the name is no stamp (ValueError).
ParseTimestamp(filename, current) ==
  LET clean_name == CleanName(filename)
  IN IF Len(clean_name) = 1 /\ IsStamp(clean_name[1])
       THEN StampSecond(clean_name[1])
       ELSE current

\* ----------------------------------------------------------- window titles
\* A title is a sequence of characters.
\* The sentinel get_active_window_title returns when the query fails.
UnknownTitle == <<"U">>
\* The titles the window system may report.
Titles == {<<>>, <<"p", "k">>, <<"K", "p">>, <<"k", "P">>, <<"p", "k", "p">>, UnknownTitle}
NoTitle == <<"-">>

LowerChar(c) == CASE c = "K" -> "k" [] c = "P" -> "p" [] c = "U" -> "u" [] OTHER -> c
\* str.lower()
Lower(s) == [i \in 1..Len(s) |-> LowerChar(s[i])]
\* Python's `w in s` on strings.
IsSubstring(w, s) ==
  \E i \in 0..(Len(s) - Len(w)) : \A j \in 1..Len(w) : s[i + j] = w[j]

\* ------------------------------------------------------------ fingerprints
\* A fingerprint is the set of its bits that are 1.
Fingerprints == SUBSET (1..HashBits)
\* last_hash = None: no bit of a fingerprint is numbered 0.
None == {0}
\* imagehash's subtraction: the number of differing bits.
HashDiff(a, b) == Cardinality((a \ b) \cup (b \ a))

VARIABLES
  now,               \* the wall clock, in seconds
  capture_interval,  \* CONFIG['capture_interval']
  ocr_outputs,       \* the results the OCR engine may return
  reset_pc,          \* the dashboard's "Delete All Data" handler: its position
  pause_file,        \* whether PAUSE_FILE exists
  inbox,             \* STORAGE_PATH / INBOX_DIR: file name -> "partial" | "complete"
  archive,           \* ARCHIVE_DIR: the set of file names in it
  wpc,               \* the watcher's position
  timestamp,         \* the second capture() read at its start (0: none)
  title,             \* the window title the cycle resolved
  temp_phash,        \* the fingerprint of the image the capture tool wrote
  last_hash,         \* RecallWatcher.last_hash
  wake_at,           \* the second the watcher's sleep ends
  pc,                \* the worker's position
  files,             \* run(): the rest of the sorted listing
  file,              \* the file name process_image is working on
  new_id,            \* new_entry.id once the insert is committed (0: none)
  ocr_result,        \* process_image: what the OCR engine returned
  full_text,         \* process_image: the joined text
  entry_timestamp,   \* process_image: timestamp
  records,           \* the screenshots table: rows [id, filepath, timestamp,
                     \* ocr_text, app_name]
  vectors,           \* the screenshots collection: points [id, text, path]
  next_id,           \* the table's id sequence
  schema_created,    \* Base.metadata.create_all has run
  collection_exists, \* the collection "screenshots" exists
  faults,            \* external failures still to come
  published          \* history: the names the watcher has published so far

watcherLocal == <<wpc, timestamp, title, temp_phash, last_hash, wake_at, published>>
watcherVars == <<inbox, watcherLocal>>
enrichLocal == <<ocr_result, full_text, entry_timestamp>>
workerLocal == <<pc, files, file, new_id, enrichLocal>>
stores == <<records, vectors, next_id, schema_created, collection_exists>>
workerVars == <<workerLocal, stores, archive>>
vars == <<now, capture_interval, ocr_outputs, reset_pc, pause_file, inbox, archive, wpc,
          timestamp, title, temp_phash, last_hash, wake_at, pc, files, file,
          new_id, ocr_result, full_text, entry_timestamp, records, vectors, next_id, schema_created, collection_exists, faults,
          published>>

NoFile == <<"-">>

\* os.listdir / os.path.exists on the inbox.
InboxFiles == DOMAIN inbox
\* The inbox without one file (os.remove, or the source of an os.rename).
Without(dir, f) == [g \in (DOMAIN dir) \ {f} |-> dir[g]]
\* The inbox with file f holding content of the given state.
With(dir, f, state) == [g \in (DOMAIN dir) \cup {f} |-> IF g = f THEN state ELSE dir[g]]

Init ==
  /\ now = 1
  /\ capture_interval \in 0..MaxInterval
  /\ ocr_outputs = {<< <<OcrLine("cpu"), OcrLine("usage")>> >>}
  /\ reset_pc = "idle"
  /\ pause_file = FALSE
  /\ inbox = <<>>
  /\ archive = {}
  /\ wpc = "capture"
  /\ timestamp = 0
  /\ title = NoTitle
  /\ temp_phash = {}
  /\ last_hash = None
  /\ wake_at = 0
  /\ pc = "connect_postgres"
  /\ files = <<>>
  /\ file = NoFile
  /\ new_id = 0
  /\ ocr_result = NoResult
  /\ full_text = <<>>
  /\ entry_timestamp = 0
  /\ records = {}
  /\ vectors = {}
  /\ next_id = 1
  /\ schema_created = FALSE
  /\ collection_exists = FALSE
  /\ faults = MaxFaults
  /\ published = {}

\* ------------------------------------------------------------- environment
\* A second passes.
Tick ==
  /\ now < MaxTime
  /\ now' = now + 1
  /\ UNCHANGED <<capture_interval, ocr_outputs, reset_pc, pause_file, watcherVars, workerVars, faults>>

\* "Pause Capture", app.py:88-93: the dashboard saw no marker and writes it.
PauseCapture ==
  /\ ~pause_file
  /\ pause_file' = TRUE
  /\ UNCHANGED <<now, capture_interval, ocr_outputs, reset_pc, watcherVars, workerVars, faults>>

\* "Resume Capture", app.py:82-87: the marker is removed if it exists.
ResumeCapture ==
  /\ pause_file
  /\ pause_file' = FALSE
  /\ UNCHANGED <<now, capture_interval, ocr_outputs, reset_pc, watcherVars, workerVars, faults>>

\* -------------------------------------------------------- Capture Sampler
\* RecallWatcher.is_paused
is_paused == pause_file

\* A filter that compares without folding the case.
CaseSensitiveFilter(t) ==
  ~ \E blocked_word \in window_blacklist : IsSubstring(blocked_word, t)

\* RecallWatcher.is_safe_to_capture on a resolved title.
is_safe_to_capture(t) ==
  ~ \E blocked_word \in window_blacklist : IsSubstring(Lower(blocked_word), Lower(t))

\* The cycle is over: capture() returns and run() sleeps capture_interval.
EndCycle ==
  /\ wpc' = "sleep"
  /\ wake_at' = now + capture_interval
  /\ timestamp' = 0
  /\ title' = NoTitle

\* capture(), lines 66-69 and get_active_window_title: the pause check, then
\* the timestamp and the window title (the sentinel when the query fails).
CaptureBegin ==
  /\ wpc = "capture"
  /\ IF is_paused
       THEN /\ EndCycle
            /\ UNCHANGED <<inbox, temp_phash, last_hash, published>>
       ELSE /\ timestamp' = now
            /\ title' \in Titles
            /\ wpc' = "privacy"
            /\ UNCHANGED <<inbox, temp_phash, last_hash, wake_at, published>>
  /\ UNCHANGED <<now, capture_interval, ocr_outputs, reset_pc, pause_file, workerVars, faults>>

\* capture(), lines 74-75: the privacy filter.
CapturePrivacy ==
  /\ wpc = "privacy"
  /\ IF is_safe_to_capture(title)
       THEN /\ wpc' = "grim"
            /\ title' = NoTitle
            /\ UNCHANGED <<timestamp, wake_at>>
       ELSE EndCycle
  /\ UNCHANGED <<inbox, temp_phash, last_hash, published>>
  /\ UNCHANGED <<now, capture_interval, ocr_outputs, reset_pc, pause_file, workerVars, faults>>

\* capture(), lines 77-81: the capture tool opens temp_path and starts to
\* write the image.
GrimStart ==
  /\ wpc = "grim"
  /\ inbox' = With(inbox, temp_filename, "partial")
  /\ wpc' = "grim_writing"
  /\ UNCHANGED <<timestamp, title, temp_phash, last_hash, wake_at, published>>
  /\ UNCHANGED <<now, capture_interval, ocr_outputs, reset_pc, pause_file, workerVars, faults>>

\* capture(), lines 77-81 and 100-101: the capture tool cannot be started
\* (subprocess.run raises OSError), which the last except clause catches.
\* Nothing is written.
GrimNotStarted ==
  /\ wpc = "grim"
  /\ faults > 0
  /\ faults' = faults - 1
  /\ EndCycle
  /\ UNCHANGED <<inbox, temp_phash, last_hash, published>>
  /\ UNCHANGED <<now, capture_interval, ocr_outputs, reset_pc, pause_file, workerVars>>

\* The capture tool finishes the image and exits with 0.
GrimDone ==
  /\ wpc = "grim_writing"
  /\ inbox' = With(inbox, temp_filename, "complete")
  /\ temp_phash' \in Fingerprints
  /\ wpc' = "hash"
  /\ UNCHANGED <<timestamp, title, last_hash, wake_at, published>>
  /\ UNCHANGED <<now, capture_interval, ocr_outputs, reset_pc, pause_file, workerVars, faults>>

\* A capture failure that ends the watcher.
GrimFatal ==
  /\ wpc = "grim_writing"
  /\ faults > 0
  /\ faults' = faults - 1
  /\ wpc' = "stopped"
  /\ UNCHANGED <<inbox, timestamp, title, temp_phash, last_hash, wake_at, published>>
  /\ UNCHANGED <<now, capture_interval, ocr_outputs, reset_pc, pause_file, workerVars>>

\* The capture tool exits non-zero: CalledProcessError, lines 98-99. What it
\* wrote so far stays under the temp name.
GrimFail ==
  /\ wpc = "grim_writing"
  /\ faults > 0
  /\ faults' = faults - 1
  /\ EndCycle
  /\ UNCHANGED <<inbox, temp_phash, last_hash, published>>
  /\ UNCHANGED <<now, capture_interval, ocr_outputs, reset_pc, pause_file, workerVars>>

\* A comparison that also suppresses a frame at the threshold.
IsNearDuplicateInclusive(current_hash, last) ==
  /\ last # None
  /\ HashDiff(current_hash, last) <= similarity_threshold

\* capture(), lines 86-89: whether the new fingerprint is a near duplicate.
IsNearDuplicate(current_hash, last) ==
  /\ last # None
  /\ HashDiff(current_hash, last) < similarity_threshold

\* capture(), lines 83-96: fingerprint, dedup decision, publishing rename.
CaptureDecide ==
  /\ wpc = "hash"
  /\ LET current_hash == temp_phash
     IN IF IsNearDuplicate(current_hash, last_hash)
          THEN UNCHANGED <<inbox, last_hash, published>>
          ELSE /\ inbox' = With(Without(inbox, temp_filename),
                                final_filename(timestamp), inbox[temp_filename])
               /\ last_hash' = current_hash
               /\ published' = published \cup {final_filename(timestamp)}
  /\ temp_phash' = {}
  /\ EndCycle
  /\ UNCHANGED <<now, capture_interval, ocr_outputs, reset_pc, pause_file, workerVars, faults>>

\* run(), line 110: time.sleep(capture_interval) is over.
WatcherWake ==
  /\ wpc = "sleep"
  /\ now >= wake_at
  /\ wpc' = "capture"
  /\ wake_at' = 0
  /\ UNCHANGED <<inbox, timestamp, title, temp_phash, last_hash, published>>
  /\ UNCHANGED <<now, capture_interval, ocr_outputs, reset_pc, pause_file, workerVars, faults>>

Watcher ==
  \/ CaptureBegin
  \/ CapturePrivacy
  \/ GrimStart
  \/ GrimNotStarted
  \/ GrimDone
  \/ GrimFail
  \/ CaptureDecide
  \/ WatcherWake

\* ------------------------------------------------------ Ingestion Pipeline
\* A table without the unique constraint on filepath.
NoUniqueConstraint(table, filepath) == FALSE

\* The unique constraint on Screenshot.filepath, database.py:21: whether a
\* row with this filepath is already committed.
UniqueViolation(table, filepath) == \E r \in table : r.filepath = filepath

\* A commit that records the inbox path of the file instead of its archive
\* path.
InsertUnderInboxPath(table, id, filepath, time, text) ==
  table \cup {[id |-> id, filepath |-> <<"inbox">> \o Tail(filepath),
               timestamp |-> time, ocr_text |-> text, app_name |-> "Unknown"]}

\* session.add(new_entry); session.commit(), worker.py:125-133: the table
\* with the new row, whose id the sequence assigns.
InsertScreenshot(table, id, filepath, time, text) ==
  table \cup {[id |-> id, filepath |-> filepath, timestamp |-> time,
               ocr_text |-> text, app_name |-> "Unknown"]}

\* An upsert under a fixed id instead of the id of the row.
UpsertUnderFixedId(points, id, text, filename) ==
  {p \in points : p.id # 1} \cup {[id |-> 1, text |-> text, path |-> filename]}

\* qdrant.upsert, worker.py:136-145: the point with this id is replaced.
UpsertPoint(points, id, text, filename) ==
  {p \in points : p.id # id} \cup {[id |-> id, text |-> text, path |-> filename]}

\* A handler that takes every exception for a duplicate.
AlwaysDuplicateError(e) == TRUE
\* A handler that takes no exception for a duplicate.
NeverDuplicateError(e) == FALSE

\* worker.py:156: the test the handler makes on the text of the exception.
IsDuplicateError(e) == e \in {"UniqueViolation", "IntegrityError"}

\* process_image returns to the for loop of run(): its locals are gone.
Return ==
  /\ pc' = "loop"
  /\ file' = NoFile
  /\ new_id' = 0
  /\ ocr_result' = NoResult
  /\ full_text' = <<>>
  /\ entry_timestamp' = 0

\* A handler that gives up the pass: the loop starts over with a new listing.
HandleExceptionAbortsPass(e) ==
  /\ inbox' = IF IsDuplicateError(e) /\ file \in InboxFiles
                THEN Without(inbox, file) ELSE inbox
  /\ pc' = "list"
  /\ file' = NoFile
  /\ new_id' = 0
  /\ ocr_result' = NoResult
  /\ full_text' = <<>>
  /\ entry_timestamp' = 0

\* process_image's except clause, worker.py:153-161, then the return to the
\* for loop of run(): the inbox copy is removed on a duplicate error only.
HandleException(e) ==
  /\ inbox' = IF IsDuplicateError(e) /\ file \in InboxFiles
                THEN Without(inbox, file) ELSE inbox
  /\ Return

\* A bootstrap that goes on to the drain loop once the relational store is
\* ready, without the vector store.
ConnectPostgresSkipsQdrant ==
  /\ pc = "connect_postgres"
  /\ schema_created' = TRUE
  /\ pc' = "list"
  /\ UNCHANGED <<files, file, new_id, enrichLocal, records, vectors, next_id,
                 collection_exists>>
  /\ UNCHANGED <<now, capture_interval, ocr_outputs, reset_pc, pause_file, inbox, archive, watcherLocal, faults>>

\* _connect_postgres, worker.py:67-74: connected, schema created.
ConnectPostgresOk ==
  /\ pc = "connect_postgres"
  /\ schema_created' = TRUE
  /\ pc' = "connect_qdrant"
  /\ UNCHANGED <<files, file, new_id, enrichLocal, records, vectors, next_id,
                 collection_exists>>
  /\ UNCHANGED <<now, capture_interval, ocr_outputs, reset_pc, pause_file, inbox, archive, watcherLocal, faults>>

\* A bootstrap in which a failed attempt ends the process.
ConnectPostgresFatal ==
  /\ pc = "connect_postgres"
  /\ faults > 0
  /\ faults' = faults - 1
  /\ pc' = "dead"
  /\ UNCHANGED <<files, file, new_id, enrichLocal, stores>>
  /\ UNCHANGED <<now, capture_interval, ocr_outputs, reset_pc, pause_file, inbox, archive, watcherLocal>>

\* _connect_postgres, worker.py:75-77: the attempt failed; sleep and retry.
ConnectPostgresFail ==
  /\ pc = "connect_postgres"
  /\ faults > 0
  /\ faults' = faults - 1
  /\ UNCHANGED <<now, capture_interval, ocr_outputs, reset_pc, pause_file, inbox, archive, watcherLocal,
                 workerLocal, stores>>

\* _connect_qdrant, worker.py:79-91, then the models load and run() starts.
ConnectQdrantOk ==
  /\ pc = "connect_qdrant"
  /\ collection_exists' = TRUE
  /\ pc' = "list"
  /\ UNCHANGED <<files, file, new_id, enrichLocal, records, vectors, next_id,
                 schema_created>>
  /\ UNCHANGED <<now, capture_interval, ocr_outputs, reset_pc, pause_file, inbox, archive, watcherLocal, faults>>

\* _connect_qdrant, worker.py:92-94: the attempt failed; sleep and retry.
ConnectQdrantFail ==
  /\ pc = "connect_qdrant"
  /\ faults > 0
  /\ faults' = faults - 1
  /\ UNCHANGED <<now, capture_interval, ocr_outputs, reset_pc, pause_file, inbox, archive, watcherLocal,
                 workerLocal, stores>>

\* run(), worker.py:168-176: the sorted listing of the image files; on an
\* empty listing (`if not files`) the loop sleeps.
RunList ==
  /\ pc = "list"
  /\ files' = Sorted({f \in InboxFiles : HasImageExtension(f)})
  /\ pc' = IF files' = <<>> THEN "sleep" ELSE "loop"
  /\ UNCHANGED <<file, new_id, enrichLocal, stores>>
  /\ UNCHANGED <<now, capture_interval, ocr_outputs, reset_pc, pause_file, inbox, archive, watcherLocal, faults>>

\* run(), worker.py:175-176: time.sleep(2) is over and the loop continues
\* with the next listing. How long the sleep lasts is left open.
RunWake ==
  /\ pc = "sleep"
  /\ pc' = "list"
  /\ UNCHANGED <<files, file, new_id, enrichLocal, stores>>
  /\ UNCHANGED <<now, capture_interval, ocr_outputs, reset_pc, pause_file, inbox, archive, watcherLocal, faults>>

\* run(), worker.py:178-183, and process_image's existence check,
\* worker.py:97-101: the next name of the listing is skipped (a temp name,
\* or a file that is gone) or handed to process_image.
RunNext ==
  /\ pc = "loop"
  /\ IF files = <<>>
       THEN /\ pc' = "list"
            /\ UNCHANGED <<files, file>>
       ELSE /\ files' = Tail(files)
            /\ IF IsTempName(Head(files)) \/ Head(files) \notin InboxFiles
                 THEN UNCHANGED <<pc, file>>
                 ELSE /\ file' = Head(files)
                      /\ pc' = "ocr"
  /\ UNCHANGED <<new_id, enrichLocal, stores>>
  /\ UNCHANGED <<now, capture_interval, ocr_outputs, reset_pc, pause_file, inbox, archive, watcherLocal, faults>>

\* process_image, worker.py:104-123: OCR, embedding and timestamp.
ProcessEnrichOk ==
  /\ pc = "ocr"
  /\ file \in InboxFiles
  /\ ocr_result' \in ocr_outputs
  /\ full_text' = FullText(ocr_result')
  /\ entry_timestamp' = ParseTimestamp(file, now)
  /\ pc' = "insert"
  /\ UNCHANGED <<files, file, new_id, stores>>
  /\ UNCHANGED <<now, capture_interval, ocr_outputs, reset_pc, pause_file, inbox, archive, watcherLocal, faults>>

\* The OCR or the embedding engine raises (or the file is gone).
ProcessEnrichFail ==
  /\ pc = "ocr"
  /\ IF file \in InboxFiles
       THEN faults > 0 /\ faults' = faults - 1
       ELSE UNCHANGED faults
  /\ HandleException("EngineError")
  /\ UNCHANGED <<files, stores>>
  /\ UNCHANGED <<now, capture_interval, ocr_outputs, reset_pc, pause_file, archive, watcherLocal>>

\* process_image, worker.py:125-133: the row is committed and gets its id.
ProcessInsertOk ==
  /\ pc = "insert"
  /\ ~UniqueViolation(records, ArchivePath(file))
  /\ records' = InsertScreenshot(records, next_id, ArchivePath(file),
                                 entry_timestamp, full_text)
  /\ new_id' = next_id
  /\ next_id' = next_id + 1
  /\ pc' = "upsert"
  /\ UNCHANGED <<files, file, enrichLocal, vectors, schema_created, collection_exists>>
  /\ UNCHANGED <<now, capture_interval, ocr_outputs, reset_pc, pause_file, inbox, archive, watcherLocal, faults>>

\* The commit fails on the unique constraint: the duplicate path of the
\* handler.
ProcessInsertDuplicate ==
  /\ pc = "insert"
  /\ UniqueViolation(records, ArchivePath(file))
  /\ HandleException("UniqueViolation")
  /\ UNCHANGED <<files, stores>>
  /\ UNCHANGED <<now, capture_interval, ocr_outputs, reset_pc, pause_file, archive, watcherLocal, faults>>

\* The relational store fails for another reason.
ProcessInsertFail ==
  /\ pc = "insert"
  /\ faults > 0
  /\ faults' = faults - 1
  /\ HandleException("OperationalError")
  /\ UNCHANGED <<files, stores>>
  /\ UNCHANGED <<now, capture_interval, ocr_outputs, reset_pc, pause_file, archive, watcherLocal>>

\* new_entry.id, worker.py:140: after the commit the session reads the row
\* again to get its id, which it can only while the row is in the table.
RowReadable(table, id) == \E r \in table : r.id = id

\* process_image, worker.py:136-146: the point is upserted under the id of
\* the committed row, and the session is closed. From the read of the id to
\* session.close() the session holds a lock on the table that keeps a
\* TRUNCATE waiting, so the step is one.
ProcessUpsertOk ==
  /\ pc = "upsert"
  /\ RowReadable(records, new_id)
  /\ collection_exists
  /\ vectors' = UpsertPoint(vectors, new_id, full_text, file)
  /\ pc' = "rename"
  /\ UNCHANGED <<files, file, new_id, enrichLocal, records, next_id, schema_created,
                 collection_exists>>
  /\ UNCHANGED <<now, capture_interval, ocr_outputs, reset_pc, pause_file, inbox, archive, watcherLocal, faults>>

\* A failure of the vector store that is swallowed: the attempt goes on to
\* the archive rename.
ProcessUpsertFailArchives ==
  /\ pc = "upsert"
  /\ faults > 0
  /\ faults' = faults - 1
  /\ pc' = "rename"
  /\ UNCHANGED <<files, file, new_id, enrichLocal, stores>>
  /\ UNCHANGED <<now, capture_interval, ocr_outputs, reset_pc, pause_file, inbox, archive, watcherLocal>>

\* The vector store fails, or the collection is not there, or the row has
\* been deleted (ObjectDeletedError): what is committed stays.
ProcessUpsertFail ==
  /\ pc = "upsert"
  /\ IF RowReadable(records, new_id) /\ collection_exists
       THEN faults > 0 /\ faults' = faults - 1
       ELSE UNCHANGED faults
  /\ HandleException("UnexpectedResponse")
  /\ UNCHANGED <<files, stores>>
  /\ UNCHANGED <<now, capture_interval, ocr_outputs, reset_pc, pause_file, archive, watcherLocal>>

\* process_image, worker.py:149-151: os.rename from the inbox to the
\* archive; FileNotFoundError when the inbox copy is gone.
ProcessArchive ==
  /\ pc = "rename"
  /\ IF file \in InboxFiles
       THEN /\ archive' = archive \cup {file}
            /\ inbox' = Without(inbox, file)
            /\ Return
       ELSE /\ HandleException("FileNotFoundError")
            /\ UNCHANGED archive
  /\ UNCHANGED <<files, stores>>
  /\ UNCHANGED <<now, capture_interval, ocr_outputs, reset_pc, pause_file, watcherLocal, faults>>

\* The worker process dies and is started again: its memory is lost, the
\* directories and the stores are as it left them.
WorkerCrash ==
  /\ pc # "connect_postgres"
  /\ faults > 0
  /\ faults' = faults - 1
  /\ pc' = "connect_postgres"
  /\ files' = <<>>
  /\ file' = NoFile
  /\ new_id' = 0
  /\ ocr_result' = NoResult
  /\ full_text' = <<>>
  /\ entry_timestamp' = 0
  /\ UNCHANGED <<now, capture_interval, ocr_outputs, reset_pc, pause_file, inbox, archive, watcherLocal, stores>>

Worker ==
  \/ ConnectPostgresOk
  \/ ConnectPostgresFail
  \/ ConnectQdrantOk
  \/ ConnectQdrantFail
  \/ RunList
  \/ RunWake
  \/ RunNext
  \/ ProcessEnrichOk
  \/ ProcessEnrichFail
  \/ ProcessInsertOk
  \/ ProcessInsertDuplicate
  \/ ProcessInsertFail
  \/ ProcessUpsertOk
  \/ ProcessUpsertFail
  \/ ProcessArchive

Next ==
  \/ Tick
  \/ PauseCapture
  \/ ResumeCapture
  \/ Watcher
  \/ Worker
  \/ WorkerCrash

Spec == Init /\ [][Next]_vars

\* The worker is a running process: whenever it can take a step it
\* eventually takes one. The watcher, the dashboard and the faults are under
\* no obligation.
FairSpec == Spec /\ WF_vars(Worker)

\* The worker alone, started on an inbox that already holds any choice of
\* complete files (frames of the watcher and a file with a foreign name),
\* with an OCR engine that may return any of OcrResults.
InboxNames == FinalNames \cup {foreign_filename}
ProcessInit ==
  /\ now = 1
  /\ capture_interval = MaxInterval
  /\ ocr_outputs = OcrResults
  /\ reset_pc = "idle"
  /\ pause_file = FALSE
  /\ inbox \in {[f \in S |-> "complete"] : S \in SUBSET InboxNames}
  /\ archive = {}
  /\ wpc = "capture"
  /\ timestamp = 0
  /\ title = NoTitle
  /\ temp_phash = {}
  /\ last_hash = None
  /\ wake_at = 0
  /\ pc = "connect_postgres"
  /\ files = <<>>
  /\ file = NoFile
  /\ new_id = 0
  /\ ocr_result = NoResult
  /\ full_text = <<>>
  /\ entry_timestamp = 0
  /\ records = {}
  /\ vectors = {}
  /\ next_id = 1
  /\ schema_created = FALSE
  /\ collection_exists = FALSE
  /\ faults = MaxFaults
  /\ published = {}

ProcessNext ==
  \/ Tick
  \/ Worker

ProcessSpec == ProcessInit /\ [][ProcessNext]_vars

\* ------------------------------------------------- dashboard: bulk reset
\* What the "Delete All Data" handler leaves alone in every step.
resetFrame == <<now, capture_interval, ocr_outputs, watcherLocal, workerLocal, next_id>>

\* app.py:98-102: the button is pressed; the pause marker is written.
ResetBegin ==
  /\ reset_pc = "idle"
  /\ pause_file' = TRUE
  /\ reset_pc' = "truncate"
  /\ UNCHANGED <<resetFrame, inbox, archive, records, vectors, schema_created,
                 collection_exists, faults>>

\* app.py:104-106: TRUNCATE TABLE screenshots (the id sequence goes on);
\* an error when the table does not exist yet.
ResetTruncate ==
  /\ reset_pc = "truncate"
  /\ IF schema_created
       THEN records' = {} /\ reset_pc' = "delete_collection"
       ELSE UNCHANGED records /\ reset_pc' = "failed"
  /\ UNCHANGED <<resetFrame, pause_file, inbox, archive, vectors, schema_created,
                 collection_exists, faults>>

\* app.py:107: qdrant.delete_collection.
ResetDeleteCollection ==
  /\ reset_pc = "delete_collection"
  /\ vectors' = {}
  /\ collection_exists' = FALSE
  /\ reset_pc' = "create_collection"
  /\ UNCHANGED <<resetFrame, pause_file, inbox, archive, records, schema_created, faults>>

\* app.py:108: qdrant.create_collection; an error when a starting worker
\* has created the collection in between.
ResetCreateCollection ==
  /\ reset_pc = "create_collection"
  /\ IF collection_exists
       THEN UNCHANGED collection_exists /\ reset_pc' = "failed"
       ELSE collection_exists' = TRUE /\ reset_pc' = "unlink_archive"
  /\ UNCHANGED <<resetFrame, pause_file, inbox, archive, records, vectors,
                 schema_created, faults>>

\* app.py:110-115, first folder: every file of the archive is unlinked.
ResetUnlinkArchive ==
  /\ reset_pc = "unlink_archive"
  /\ archive' = {}
  /\ reset_pc' = "unlink_inbox"
  /\ UNCHANGED <<resetFrame, pause_file, inbox, records, vectors, schema_created,
                 collection_exists, faults>>

\* app.py:110-115, second folder: every file of the inbox is unlinked.
ResetUnlinkInbox ==
  /\ reset_pc = "unlink_inbox"
  /\ inbox' = <<>>
  /\ reset_pc' = "done"
  /\ UNCHANGED <<resetFrame, pause_file, archive, records, vectors, schema_created,
                 collection_exists, faults>>

\* app.py:116-117: a store is unreachable, the reset is given up where it is.
ResetFail ==
  /\ reset_pc \in {"truncate", "delete_collection", "create_collection"}
  /\ faults > 0
  /\ faults' = faults - 1
  /\ reset_pc' = "failed"
  /\ UNCHANGED <<resetFrame, pause_file, inbox, archive, records, vectors,
                 schema_created, collection_exists>>

Reset ==
  \/ ResetBegin
  \/ ResetTruncate
  \/ ResetDeleteCollection
  \/ ResetCreateCollection
  \/ ResetUnlinkArchive
  \/ ResetUnlinkInbox
  \/ ResetFail

\* The worker on a preloaded inbox, and one bulk reset at any moment.
ResetNext ==
  \/ Worker
  \/ Reset

ResetSpec == ProcessInit /\ [][ResetNext]_vars

\* ------------------------------------------------------------- properties
\* The rows of the table whose filepath is the archive path of f.
RecordsOf(f) == {r \in records : r.filepath = ArchivePath(f)}
NoTwoRecordsSameFilepath ==
  \A r1 \in records, r2 \in records : r1.filepath = r2.filepath => r1 = r2
\* The step in which an attempt on a file whose archive path is already
\* recorded gets its answer from the relational store and returns.
InsertStepOnRecorded ==
  /\ pc = "insert"
  /\ RecordsOf(file) # {}
  /\ pc' = "loop"

\* C1. Idempotent drain: whatever attempts were made on a file name, crashes
\* and failures between the insert and the archive rename included, the
\* table never holds two rows with the same archive filepath; an attempt
\* that reaches the insert for an already recorded path inserts nothing and,
\* unless the store itself failed, removes the stale inbox copy.
C1_IdempotentDrain ==
  /\ []NoTwoRecordsSameFilepath
  /\ [][InsertStepOnRecorded =>
          /\ records' = records
          /\ (faults' = faults => file \notin DOMAIN inbox')]_vars

\* A second attempt has removed a stale copy: the path is recorded and the
\* file, never archived, is gone from the inbox.
C1_Witness ==
  \E f \in FinalNames :
    /\ RecordsOf(f) # {}
    /\ f \notin InboxFiles
    /\ f \notin archive
    /\ pc = "loop"

\* C2. Every frame the watcher has published is in exactly one of the inbox
\* and the archive.
C2_ExactlyOneOfInboxArchive ==
  \A f \in published : (f \in InboxFiles) # (f \in archive)

\* C3. Every file of the archive has exactly one row whose filepath is the
\* file's archive path.
C3_ArchivedHasOneRecord ==
  \A f \in archive : Cardinality(RecordsOf(f)) = 1

\* A frame has been archived, and its name has been published again.
C3_Witness ==
  \E f \in archive : f \in InboxFiles

\* C4. Every frame published to the inbox is eventually moved to the
\* archive, under weak fairness of the worker and finitely many failures.
C4_EveryFrameEventuallyArchived ==
  \A f \in FinalNames : (f \in InboxFiles) ~> (f \in archive)

\* The step in which the watcher renames the temp file to its final name.
PublishStep ==
  /\ wpc = "hash"
  /\ temp_filename \in DOMAIN inbox
  /\ temp_filename \notin DOMAIN inbox'

\* C5. Pause correctness: no file is published while the pause marker
\* exists, and a cycle that starts without the marker goes past the pause
\* check.
C5_PauseCorrectness ==
  [][/\ PublishStep => ~pause_file
     /\ (wpc = "capture" /\ wpc' # wpc /\ ~pause_file) => wpc' = "privacy"]_vars

\* C6. Atomic visibility: the file process_image works on is never a temp
\* name and is fully written; a partially written file exists only under
\* the reserved temp name.
C6_AtomicVisibility ==
  /\ file # NoFile =>
       /\ file # temp_filename
       /\ file \in InboxFiles => inbox[file] = "complete"
  /\ \A f \in InboxFiles : inbox[f] = "partial" => f = temp_filename

\* The worker works on a frame, and its listing goes on with the temp file,
\* which the capture tool is writing.
C6_Witness ==
  /\ file \in InboxFiles
  /\ temp_filename \in InboxFiles
  /\ inbox[temp_filename] = "partial"
  /\ files # <<>>
  /\ Head(files) = temp_filename

\* C7. Dedup threshold: the cycle that reaches the comparison (not paused,
\* not blocked, capture tool succeeded) publishes nothing when a prior
\* fingerprint exists at a distance below similarity_threshold, and
\* publishes the frame under its timestamp name otherwise.
C7_DedupThreshold ==
  [][(wpc = "hash" /\ wpc' # wpc) =>
       IF last_hash # None /\ HashDiff(temp_phash, last_hash) < similarity_threshold
         THEN inbox' = inbox /\ published' = published
         ELSE /\ final_filename(timestamp) \in DOMAIN inbox'
              /\ inbox'[final_filename(timestamp)] = "complete"
              /\ final_filename(timestamp) \in published']_vars

\* A cycle has ended on the suppression path after an earlier one was
\* published: the fully written temp file is still there and a frame is in
\* the inbox.
C7_Witness ==
  /\ wpc = "sleep"
  /\ last_hash # None
  /\ temp_filename \in InboxFiles
  /\ inbox[temp_filename] = "complete"
  /\ published # {}

\* Whether a title contains an entry of the blocklist, case folded.
MatchesBlocklist(t) ==
  \E w \in window_blacklist : \E i \in 0..(Len(t) - Len(w)) :
    \A j \in 1..Len(w) : LowerChar(t[i + j]) = LowerChar(w[j])

\* C8. Privacy filter: the cycle whose title contains a blocklist entry as a
\* case-insensitive substring ends at the filter: nothing is added to the
\* inbox, no temp file is written and last_hash keeps its value.
C8_PrivacyFilter ==
  [][(wpc = "privacy" /\ MatchesBlocklist(title) /\ wpc' # wpc) =>
       /\ wpc' = "sleep"
       /\ inbox' = inbox
       /\ last_hash' = last_hash
       /\ published' = published]_vars

\* The filter meets a title that matches only after case folding, with a
\* fingerprint stored and a stale temp file present.
C8_Witness ==
  /\ wpc = "privacy"
  /\ MatchesBlocklist(title)
  /\ ~IsSubstring(<<"K", "p">>, title)
  /\ last_hash # None
  /\ temp_filename \in InboxFiles

\* C9. Every point of the vector store has the id of a committed row whose
\* filepath is the archive path of the point's payload path, and no two
\* points share an id.
C9_VectorEntryHasRecord ==
  /\ \A v \in vectors :
       \E r \in records : r.id = v.id /\ r.filepath = ArchivePath(v.path)
  /\ \A v1 \in vectors, v2 \in vectors : v1.id = v2.id => v1 = v2

\* Two frames have been ingested, each with its own point.
C9_Witness ==
  Cardinality(vectors) >= 2

\* C10. Duplicate handling: when the insert fails on the unique constraint,
\* the inbox copy is deleted, no point is written, nothing is moved to the
\* archive, the attempt is over, and the existing row and point are as
\* they were.
C10_DuplicateHandling ==
  [][(InsertStepOnRecorded /\ faults' = faults) =>
       /\ file \notin DOMAIN inbox'
       /\ vectors' = vectors
       /\ archive' = archive
       /\ records' = records
       /\ file' = NoFile]_vars

\* A duplicate was deleted while its row and its point exist: the file is
\* in neither directory.
C10_Witness ==
  \E f \in FinalNames :
    /\ RecordsOf(f) # {}
    /\ \E v \in vectors : v.path = f
    /\ f \notin InboxFiles
    /\ f \notin archive

\* The step in which an attempt ends on an OCR, embedding, relational-store
\* or vector-store error that is no uniqueness violation.
FailStep ==
  /\ pc \in {"ocr", "insert", "upsert"}
  /\ pc' = "loop"
  /\ faults' = faults - 1

\* C11. Per-file ingestion failure: an attempt that fails on an error other
\* than a uniqueness violation leaves the file in the inbox; the file then
\* stays there until the worker attempts it again, which the next listing
\* brings about: the listing holds every frame of the inbox and the loop
\* hands each listed frame that still exists to process_image.
C11_FailedFileIsRetried ==
  [][/\ FailStep => (inbox' = inbox /\ file \in DOMAIN inbox' /\ archive' = archive)
     /\ \A f \in FinalNames :
          (f \in DOMAIN inbox /\ f \notin DOMAIN inbox') => file = f
     /\ (pc = "list" /\ pc' \in {"loop", "sleep"}) =>
          \A f \in FinalNames \cap DOMAIN inbox :
            \E i \in 1..Len(files') : files'[i] = f
     /\ (pc = "loop" /\ files # <<>> /\ files' # files /\ pc' # "connect_postgres"
         /\ Head(files) \in FinalNames \cap DOMAIN inbox) =>
          (file' = Head(files) /\ pc' = "ocr")]_vars

\* A frame is attempted again after an attempt that failed past the commit:
\* its row exists, it has no point and it is still in the inbox.
C11_Witness ==
  /\ pc = "ocr"
  /\ file \in InboxFiles
  /\ RecordsOf(file) # {}
  /\ ~ \E v \in vectors : v.path = file

\* The text fragments an OCR result holds: those of its first page.
Fragments(result) ==
  IF Len(result) = 0 THEN <<>>
  ELSE [i \in 1..Len(result[1]) |-> result[1][i][2][1]]
\* text is the fragments in their order with one space between neighbours.
IsJoinOf(text, frags) ==
  /\ Len(text) = IF Len(frags) = 0 THEN 0 ELSE 2 * Len(frags) - 1
  /\ \A i \in 1..Len(text) :
       text[i] = IF i % 2 = 1 THEN frags[(i + 1) \div 2] ELSE " "
\* time is what the stamp of the name says, or the current time when the
\* name without its extension is no stamp.
IsTimeOf(time, filename, current) ==
  IF Len(filename) = 2 /\ \E t \in 1..MaxTime : filename[1] = ToString(t)
    THEN filename[1] = ToString(time)
    ELSE time = current

\* C12: successful processing. For a file in the inbox whose archive path has
\* no record, an attempt in which OCR, embedding and both stores succeed
\* computes the text as the recognized fragments joined by single spaces
\* (empty when nothing is recognized) and the timestamp from the filename
\* (the current time when it does not parse), inserts exactly one row with
\* the archive path, that text and that timestamp, upserts exactly one point
\* under the assigned id with payload {text, path: filename}, and moves the
\* file from the inbox to the archive.
C12_SuccessfulProcessing ==
  [][/\ (pc = "ocr" /\ pc' = "insert") =>
          /\ IsJoinOf(full_text', Fragments(ocr_result'))
          /\ IsTimeOf(entry_timestamp', file, now)
     /\ (pc = "insert" /\ pc' = "upsert") =>
          /\ RecordsOf(file) = {}
          /\ new_id' \notin {r.id : r \in records}
          /\ records' = records \cup
                {[id |-> new_id', filepath |-> <<"archive">> \o file,
                  timestamp |-> entry_timestamp, ocr_text |-> full_text,
                  app_name |-> "Unknown"]}
     /\ (pc = "upsert" /\ pc' = "rename") =>
          /\ {v \in vectors' : v.id = new_id}
               = {[id |-> new_id, text |-> full_text, path |-> file]}
          /\ {v \in vectors' : v.id # new_id} = {v \in vectors : v.id # new_id}
     /\ (pc = "rename" /\ pc' = "loop" /\ file \in DOMAIN inbox) =>
          /\ file \notin DOMAIN inbox'
          /\ file \in archive'
          /\ records' = records /\ vectors' = vectors
          /\ RecordsOf(file)
               = {[id |-> new_id, filepath |-> <<"archive">> \o file,
                   timestamp |-> entry_timestamp, ocr_text |-> full_text,
                   app_name |-> "Unknown"]}
          /\ {v \in vectors : v.id = new_id}
               = {[id |-> new_id, text |-> full_text, path |-> file]}
          /\ IsJoinOf(full_text, Fragments(ocr_result))]_vars
\* A file with a foreign name was processed when the clock showed 2: its row
\* carries the joined text and the current time, its point the same id.
C12_Witness ==
  /\ foreign_filename \in archive
  /\ foreign_filename \notin InboxFiles
  /\ \E r \in records :
       /\ r.filepath = ArchivePath(foreign_filename)
       /\ r.ocr_text = <<"cpu", " ", "usage">>
       /\ r.timestamp = 2
       /\ \E v \in vectors :
            v.id = r.id /\ v.text = r.ocr_text /\ v.path = foreign_filename

\* The worker is in its constructor: one of the two bootstrap steps.
InBootstrap == pc \in {"connect_postgres", "connect_qdrant"}

\* C13: startup ordering. Outside the bootstrap the schema has been created
\* and the collection exists; during the bootstrap the worker holds no
\* listing and no file, and no step touches the stores, the archive or a
\* frame of the inbox; the vector-store step is attempted only once the
\* relational step of this run has succeeded, and the drain loop is entered
\* only from a vector-store step that succeeded.
C13_StartupOrdering ==
  /\ [](/\ ~InBootstrap => (schema_created /\ collection_exists)
        /\ pc = "connect_qdrant" => schema_created
        /\ InBootstrap => (files = <<>> /\ file = NoFile /\ new_id = 0))
  /\ [][/\ InBootstrap =>
             /\ records' = records /\ vectors' = vectors /\ archive' = archive
             /\ \A f \in FinalNames : f \in DOMAIN inbox => f \in DOMAIN inbox'
        /\ (pc = "connect_postgres" /\ pc' # pc) =>
             (pc' = "connect_qdrant" /\ schema_created')
        /\ (pc = "connect_qdrant" /\ pc' \notin {"connect_postgres", "connect_qdrant"}) =>
             (pc' = "list" /\ schema_created /\ collection_exists')
        /\ (pc # "connect_qdrant" /\ pc' = "connect_qdrant") =>
             (pc = "connect_postgres" /\ schema_created')]_vars
\* The relational step is done, the vector-store step is not, and a frame
\* is already waiting in the inbox.
C13_Witness ==
  /\ pc = "connect_qdrant"
  /\ schema_created
  /\ ~collection_exists
  /\ \E f \in FinalNames : f \in InboxFiles /\ inbox[f] = "complete"
  /\ records = {}

\* C14: bootstrap liveness. A step of the bootstrap that uses up a failure
\* leaves the worker in the bootstrap (in the same step, or at its start
\* after a restart) with the successful attempt still possible; and since
\* the failures end (the stores become and stay reachable), a worker in its
\* bootstrap eventually enters the drain loop.
C14_BootstrapLiveness ==
  /\ [][(InBootstrap /\ faults' # faults) =>
          /\ pc' \in {pc, "connect_postgres"}
          /\ schema_created' = schema_created
          /\ collection_exists' = collection_exists]_vars
  /\ [](pc = "connect_postgres" => ENABLED ConnectPostgresOk)
  /\ [](pc = "connect_qdrant" => ENABLED ConnectQdrantOk)
  /\ (InBootstrap ~> pc = "list")
\* The first attempt on the relational store has failed (the watcher has
\* taken no step yet: with a one-second interval it is back at the top of
\* its loop at time 2 at the earliest) and the worker is about to try again.
C14_Witness ==
  /\ pc = "connect_postgres"
  /\ ~schema_created
  /\ faults < MaxFaults
  /\ now = 1 /\ capture_interval = 1 /\ wpc = "capture"

\* The first tokens of the file names in the order of their characters:
\* digits before letters, 's' before 't'.
TokenOrder == <<"1", "2", "3", "4", "5", "6", "7", "8", "9", "shot", "temp_">>
Precedes(a, b) ==
  \E i \in 1..Len(TokenOrder), j \in 1..Len(TokenOrder) :
    i < j /\ TokenOrder[i] = a[1] /\ TokenOrder[j] = b[1]

\* C15: ascending order within a pass. What is left of the listing is in
\* ascending order of filename; the file handed to process_image is the
\* first of what was left and precedes every name still to come, so a
\* smaller name of a listing is attempted before a larger one.
C15_AscendingOrder ==
  /\ [](\A i \in 1..Len(files), j \in 1..Len(files) :
          i < j => Precedes(files[i], files[j]))
  /\ [](file # NoFile => \A i \in 1..Len(files) : Precedes(file, files[i]))
  /\ [][(pc = "loop" /\ pc' = "ocr") =>
          /\ file' = Head(files)
          /\ files' = Tail(files)]_vars
\* The first of three listed files is being processed, the two larger names
\* are still to come.
C15_Witness ==
  /\ pc = "ocr"
  /\ file = final_filename(1)
  /\ files = <<final_filename(2), foreign_filename>>

\* process_image is running on a file.
InProcessImage == pc \in {"ocr", "insert", "upsert", "rename"}

\* C16: per-file independence. However process_image ends on a file (done,
\* failed in any stage, duplicate, file gone), the for loop goes on with the
\* rest of the same listing: the listing is not touched, the next name is
\* taken from it, every candidate still in the inbox is handed to
\* process_image, and a new listing is made only when none is left.
C16_PerFileIndependence ==
  [][/\ (InProcessImage /\ pc' # pc /\ pc' # "connect_postgres") =>
          /\ pc' \in {"insert", "upsert", "rename", "loop"}
          /\ files' = files
     /\ (pc = "loop" /\ pc' \in {"list", "sleep"}) => files = <<>>
     /\ (pc = "loop" /\ files # <<>> /\ pc' # "connect_postgres" /\ files' # files) =>
          /\ files' = Tail(files)
          /\ (files[1] \in DOMAIN inbox /\ files[1] # temp_filename) =>
               (pc' = "ocr" /\ file' = files[1])]_vars
\* The attempt on 1.png failed after its row was committed (the file is
\* still in the inbox, no point was written); the same pass is now
\* processing 2.png.
C16_Witness ==
  /\ pc = "ocr"
  /\ file = final_filename(2)
  /\ final_filename(1) \in InboxFiles
  /\ RecordsOf(final_filename(1)) # {}
  /\ ~ \E v \in vectors : v.path = final_filename(1)

\* The names of a listing that the for loop hands to process_image: all but
\* those that start with "temp_".
Candidates(listing) ==
  {listing[i] : i \in {k \in 1..Len(listing) : listing[k][1] # "temp_"}}

\* C17: sleep when no candidate. A listing of the inbox that holds no
\* candidate (nothing, or only the watcher's temp file) is followed by the
\* sleep, not by another listing.
C17_SleepWhenNoCandidate ==
  [][(pc = "list" /\ pc' \notin {"list", "connect_postgres"}
      /\ Candidates(files') = {}) => pc' = "sleep"]_vars

\* The step that ends a cycle on the dedup suppression path: the new
\* fingerprint is within the threshold of the stored one.
SuppressStep ==
  /\ wpc = "hash"
  /\ wpc' = "sleep"
  /\ last_hash # None
  /\ HashDiff(temp_phash, last_hash) < similarity_threshold

\* C18: the suppression path discards the temp file. When a cycle ends by
\* suppressing a near duplicate, the temp file is gone from the storage
\* directory, no frame has been published and the stored fingerprint is
\* the one it was.
C18_SuppressionDiscardsTemp ==
  [][SuppressStep =>
       /\ temp_filename \notin DOMAIN inbox'
       /\ published' = published
       /\ \A f \in FinalNames : f \in DOMAIN inbox' => f \in DOMAIN inbox
       /\ last_hash' = last_hash]_vars
\* The suppression path as the code takes it: nothing is published, the
\* fingerprint is kept, and the inbox (the temp file included) is as it was.
C18_SuppressionLeavesTemp ==
  [][SuppressStep =>
       /\ inbox' = inbox
       /\ temp_filename \in DOMAIN inbox'
       /\ published' = published
       /\ last_hash' = last_hash]_vars

\* The step in which a capture cycle fails: the capture tool could not be
\* started or exited with an error.
CaptureFailStep ==
  /\ wpc \in {"grim", "grim_writing"}
  /\ wpc' # wpc
  /\ faults' = faults - 1

\* C19: capture failure handling. A cycle that fails publishes nothing and
\* keeps the stored fingerprint; the watcher goes to sleep until the capture
\* interval has passed and then starts the next cycle. The stored
\* fingerprint changes only in the step that publishes a frame.
C19_CaptureFailureHandling ==
  /\ [][/\ CaptureFailStep =>
             /\ published' = published
             /\ \A f \in FinalNames : f \in DOMAIN inbox' => f \in DOMAIN inbox
             /\ last_hash' = last_hash
             /\ wpc' = "sleep"
             /\ wake_at' = now + capture_interval
        /\ last_hash' # last_hash =>
             (PublishStep /\ final_filename(timestamp) \in DOMAIN inbox')
        /\ (wpc = "sleep" /\ wpc' # wpc) => (wpc' = "capture" /\ now >= wake_at)]_vars
  /\ [](wpc \in {"capture", "privacy", "grim", "grim_writing", "hash", "sleep"})
  /\ []((wpc = "sleep" /\ now >= wake_at) => ENABLED WatcherWake)
\* A cycle after an accepted frame failed while the tool was writing: the
\* watcher sleeps, the unfinished temp file is all the cycle left, the
\* fingerprint of the accepted frame is still stored.
C19_Witness ==
  /\ wpc = "sleep"
  /\ temp_filename \in InboxFiles /\ inbox[temp_filename] = "partial"
  /\ last_hash # None
  /\ published # {}
  /\ wake_at = now + capture_interval
  /\ faults < MaxFaults

\* C20: unique names. Every frame the watcher accepts is published under a
\* name it has not published before: the publishing rename replaces no
\* frame pending in the inbox and reuses no name of an archived frame.
C20_UniqueNames ==
  [][PublishStep =>
       /\ final_filename(timestamp) \notin published
       /\ final_filename(timestamp) \notin DOMAIN inbox
       /\ final_filename(timestamp) \notin archive]_vars

\* C21: every file of the archive has a point in the vector store whose id
\* is the id of the file's row and whose payload path is the file's name,
\* whatever failures and restarts the worker went through.
C21_ArchivedHasVectorEntry ==
  \A f \in archive :
    \E r \in records, v \in vectors :
      /\ r.filepath = <<"archive">> \o f
      /\ v.id = r.id
      /\ v.path = f
\* A frame is archived, another one failed after its row was committed and
\* is still in the inbox without a point, and the worker has been restarted.
C21_Witness ==
  /\ archive # {}
  /\ \E f \in InboxFiles \ archive :
       RecordsOf(f) # {} /\ ~ \E v \in vectors : v.path = f
  /\ pc = "connect_postgres"
  /\ schema_created

\* C22: bulk reset against a running worker. Once the reset has run to its
\* end and the worker is in no process_image call, every file of the archive
\* has a row with its archive path and every point has a row with its id.
C22_ResetKeepsStoresConsistent ==
  (reset_pc = "done" /\ ~InProcessImage /\ ~InBootstrap) =>
    /\ \A f \in archive : \E r \in records : r.filepath = <<"archive">> \o f
    /\ \A v \in vectors : \E r \in records : r.id = v.id
====
